---- MODULE Spec2Model ----
(***************************************************************************)
(* Model of the RSS reader: fetcher.py (conditional fetch with the         *)
(* ETag/Last-Modified cache, age filter), storage.py (the SQLite table     *)
(* processed_articles), notifier.py (the channel adapters and the          *)
(* dispatcher) and main.py (run_once).                                     *)
(*                                                                         *)
(* Spec      : runs of run_once against an environment of feed servers,    *)
(*             a summarizer, notification transports and the clock.        *)
(* StoreSpec : direct calls of the Storage methods on arbitrary inputs.    *)
(* NotifySpec: Notifier built from any configuration, notify under any     *)
(*             behaviour of the transports.                                *)
(***************************************************************************)
EXTENDS Integers, Sequences, FiniteSets, TLC

VARIABLES
    \* ---- persistent state
    db,          \* rows of the table processed_articles
    nextId,      \* the AUTOINCREMENT counter of the table
    cacheFile,   \* the file feed_cache.json
    clock,       \* datetime.now()
    \* ---- configuration (fixed per behaviour)
    config,      \* [max_age_hours, max_articles_per_run, notify]
    \* ---- environment: the feed servers
    content,     \* content[s]: the entries source s serves now
    ver,         \* ver[s]: version of that content; its validators are derived from it
    updates,     \* number of content changes so far
    ticks,       \* number of clock steps so far
    \* ---- one run of run_once
    runs,        \* number of runs started
    pc,          \* position in run_once
    cache,       \* the dict returned by load_cache, updated by fetch_feed
    feedIdx,     \* index of the next feed of fetch_all_feeds' loop
    all_articles,
    recent_articles,
    new_articles,
    articles_to_process,
    notifiers,   \* Notifier.notifiers: the channel names, in order
    i,           \* index of the article of the loop of step 7
    sub,         \* position inside one iteration: "summarize", "notify", "mark"
    summary,     \* the value summarize returned for the current article
    results,     \* the dict notify returned
    success_count,
    \* ---- history of the current run (observation only)
    fetched,     \* per feed fetched: [feed, outcome, articles]
    log,         \* calls made by the loop: summarize, send, mark
    atStart,     \* the table and the cache file when the run started
    owed,        \* in-window, unrecorded articles an interrupted run had fetched
    cacheOps,    \* what the run did so far with the cache file and the sources
    \* ---- direct calls of single functions (StoreSpec, NotifySpec)
    fnPc, fnIn, fnOut, fnOut2, fnSnap, fnK, fnI, fnCalls

vars == <<db, nextId, cacheFile, clock, config, content, ver, updates, ticks,
          runs, pc, cache, feedIdx, all_articles, recent_articles, new_articles,
          articles_to_process, notifiers, i, sub, summary, results,
          success_count, fetched, log, atStart, owed, cacheOps,
          fnPc, fnIn, fnOut, fnOut2, fnSnap, fnK, fnI, fnCalls>>

persistVars == <<db, nextId, cacheFile, clock>>
envVars == <<content, ver, updates, ticks>>
localVars == <<cache, feedIdx, all_articles, recent_articles, new_articles,
               articles_to_process, notifiers, i, sub, summary, results,
               success_count>>
histVars == <<fetched, log, atStart, owed, cacheOps>>
fnVars == <<fnPc, fnIn, fnOut, fnOut2, fnSnap, fnK, fnI, fnCalls>>

-----------------------------------------------------------------------------
\* Bounds of the model.
MaxRuns == 2
MaxTicks == 1
MaxUpdates == 1
NUrls == 3
MaxLen == 3
MaxCalls == 2
MaxText == 2

\* The length after which fetch_feed cuts the content of an article.
ContentLimit == 3000

\* Python's None where a text may stand.
None == "None"
\* An optional timestamp or validator token: nothing, or the value v.
Nothing == [some |-> FALSE, v |-> 0]
Some(x) == [some |-> TRUE, v |-> x]
\* A dict without the key of a feed, and the same dict entry once it exists.
NoEntry == [present |-> FALSE, etag |-> Nothing, modified |-> Nothing]
CacheEntry(e, m) == [present |-> TRUE, etag |-> e, modified |-> m]
EmptyCache == [s \in {1, 2} |-> NoEntry]
\* The file feed_cache.json: missing, text that is not JSON ("malformed"),
\* bytes that are not text ("undecodable"), or holding a dict ("ok").
CacheFile(state, data) == [state |-> state, data |-> data]

Range(s) == {s[k] : k \in 1..Len(s)}

-----------------------------------------------------------------------------
\* fetcher.py

\* The configured feeds: feed s has name s and url s.
Feeds == {1, 2}
FeedSeq == <<1, 2>>

\* An entry without a link.
EmptyLink == 0

Article(u, p, f) == [url |-> u, published |-> p, feed_name |-> f]

\* Article.url_hash: the first 16 hex digits of sha256(url). The digest is
\* a token of its own type, determined by the url and distinct for distinct
\* urls of the model.
UrlHash(url) == <<"sha256", url>>

\* load_cache: a missing file, and a file whose text is not JSON, give the
\* empty dict; a file whose bytes are not text makes read_text raise
\* UnicodeDecodeError, which the except clause does not name.
LoadCache(file) ==
    IF file.state = "undecodable" THEN [raised |-> TRUE, cache |-> EmptyCache]
    ELSE IF file.state \in {"missing", "malformed"}
    THEN [raised |-> FALSE, cache |-> EmptyCache]
    ELSE [raised |-> FALSE, cache |-> file.data]

\* save_cache followed by the file system: the file holds the dict.
SaveCache(c) == CacheFile("ok", c)

\* The loop over feed.entries of fetch_feed, from the entry list on: an entry
\* without link is skipped; an entry whose fields make the body raise ends the
\* try block with the articles collected so far.
RECURSIVE ParseEntries(_, _, _)
ParseEntries(entries, name, acc) ==
    IF entries = <<>> THEN [articles |-> acc, raised |-> FALSE]
    ELSE LET e == Head(entries) IN
         IF e.link = EmptyLink THEN ParseEntries(Tail(entries), name, acc)
         ELSE IF e.bad THEN [articles |-> acc, raised |-> TRUE]
         ELSE ParseEntries(Tail(entries), name,
                           Append(acc, Article(e.link, e.published, name)))

\* A text is a sequence of pieces: a word, a blank, a tag, an entity.
\* clean_html: the tags are removed, then the entities are decoded, then
\* every run of blanks becomes one blank and the blanks at both ends go.
StripTags(t) == SelectSeq(t, LAMBDA x : x # "<b>")
Unescape(t) == [k \in 1..Len(t) |-> IF t[k] = "&lt;" THEN "<" ELSE t[k]]
RECURSIVE Collapse(_)
Collapse(t) ==
    IF Len(t) <= 1 THEN t
    ELSE IF t[1] = " " /\ t[2] = " " THEN Collapse(Tail(t))
    ELSE <<t[1]>> \o Collapse(Tail(t))
RECURSIVE Strip(_)
Strip(t) ==
    IF t = <<>> THEN t
    ELSE IF t[1] = " " THEN Strip(Tail(t))
    ELSE IF t[Len(t)] = " " THEN Strip(SubSeq(t, 1, Len(t) - 1))
    ELSE t
CleanHtml(t) == Strip(Collapse(Unescape(StripTags(t))))

\* content[:3000] + '...' for a content longer than the limit.
Truncate(t) ==
    IF Len(t) > ContentLimit THEN SubSeq(t, 1, ContentLimit) \o <<"...">> ELSE t

\* The content of the article that the loop body of fetch_feed builds from an
\* entry: content[0]['value'] when the entry has a content list that is not
\* empty, else the summary when the entry has one, else the description when
\* it has one, else the empty text; cleaned and cut.
EntryContent(e) ==
    LET raw == IF e.content.has /\ e.content.items # <<>>
               THEN (IF e.content.items[1].has THEN e.content.items[1].text ELSE <<>>)
               ELSE IF e.summary.has THEN e.summary.text
               ELSE IF e.description.has THEN e.description.text
               ELSE <<>>
    IN Truncate(CleanHtml(raw))

\* cache.get(url, {}) read as a pair of optional tokens.
FeedCache(c, s) == [etag |-> c[s].etag, modified |-> c[s].modified]

\* fetch_feed(feed_config, cache) given the answer resp of feedparser.parse:
\* the articles returned, the cache dict afterwards and what happened.
FetchFeed(s, c, resp) ==
    LET feed_cache == FeedCache(c, s) IN
    IF resp.kind = "raise"
    THEN [articles |-> <<>>, cache |-> c, outcome |-> "raise"]
    ELSE IF resp.kind = "304"
    THEN [articles |-> <<>>, cache |-> c, outcome |-> "not_modified"]
    ELSE LET fc == CacheEntry(IF resp.etag.some THEN resp.etag ELSE feed_cache.etag,
                              IF resp.modified.some THEN resp.modified
                              ELSE feed_cache.modified)
             c2 == [c EXCEPT ![s] = fc]
         IN IF resp.bozo /\ resp.entries = <<>>
            THEN [articles |-> <<>>, cache |-> c2, outcome |-> "bozo_empty"]
            ELSE LET r == ParseEntries(resp.entries, s, <<>>)
                 IN [articles |-> r.articles, cache |-> c2,
                     outcome |-> IF r.raised THEN "entry_error" ELSE "ok"]

\* filter_by_age with a strict comparison against the cutoff.
RECURSIVE FilterByAgeStrict(_, _, _)
FilterByAgeStrict(articles, max_age_hours, now) ==
    IF articles = <<>> THEN <<>>
    ELSE LET a == Head(articles)
             rest == FilterByAgeStrict(Tail(articles), max_age_hours, now)
         IN IF ~a.published.some THEN <<a>> \o rest
            ELSE IF a.published.v > now - max_age_hours THEN <<a>> \o rest
            ELSE rest

\* filter_by_age: keeps the undated articles and those not older than the cutoff.
RECURSIVE FilterByAge(_, _, _)
FilterByAge(articles, max_age_hours, now) ==
    IF articles = <<>> THEN <<>>
    ELSE LET a == Head(articles)
             rest == FilterByAge(Tail(articles), max_age_hours, now)
         IN IF ~a.published.some THEN <<a>> \o rest
            ELSE IF a.published.v >= now - max_age_hours THEN <<a>> \o rest
            ELSE rest

-----------------------------------------------------------------------------
\* storage.py

\* is_processed that looks for a row of the same url and the same feed.
IsProcessedSameFeed(store, a) ==
    \E r \in store : r.url_hash = UrlHash(a.url) /\ r.feed_name = a.feed_name

\* is_processed that takes a row without summary for an unprocessed article.
IsProcessedIgnoresNull(store, a) ==
    \E r \in store : r.url_hash = UrlHash(a.url) /\ r.summary # None

\* is_processed: SELECT 1 FROM processed_articles WHERE url_hash = ?
IsProcessed(store, a) == \E r \in store : r.url_hash = UrlHash(a.url)

\* filter_new_articles that returns the new articles last first.
RECURSIVE FilterNewReversed(_, _)
FilterNewReversed(store, articles) ==
    IF articles = <<>> THEN <<>>
    ELSE IF IsProcessed(store, Head(articles))
         THEN FilterNewReversed(store, Tail(articles))
         ELSE FilterNewReversed(store, Tail(articles)) \o <<Head(articles)>>

\* filter_new_articles that filters nothing.
FilterNewKeepsAll(store, articles) == articles

\* filter_new_articles: [a for a in articles if not self.is_processed(a)]
RECURSIVE FilterNewArticles(_, _)
FilterNewArticles(store, articles) ==
    IF articles = <<>> THEN <<>>
    ELSE IF IsProcessed(store, Head(articles))
         THEN FilterNewArticles(store, Tail(articles))
         ELSE <<Head(articles)>> \o FilterNewArticles(store, Tail(articles))

\* mark_processed as a plain INSERT into a table without the UNIQUE constraint.
MarkProcessedInsertOnly(store, id, a, s, now) ==
    store \cup {[id |-> id, url_hash |-> UrlHash(a.url), url |-> a.url,
                 feed_name |-> a.feed_name, summary |-> s, processed_at |-> now]}

\* mark_processed that records only the articles that have a summary.
MarkProcessedSkipNull(store, id, a, s, now) ==
    IF s = None THEN store
    ELSE {r \in store : r.url_hash # UrlHash(a.url)}
         \cup {[id |-> id, url_hash |-> UrlHash(a.url), url |-> a.url,
                feed_name |-> a.feed_name, summary |-> s, processed_at |-> now]}

\* mark_processed: INSERT OR REPLACE under the UNIQUE constraint on url_hash:
\* the rows in conflict are deleted and the new row gets the next id.
MarkProcessed(store, id, a, s, now) ==
    {r \in store : r.url_hash # UrlHash(a.url)}
    \cup {[id |-> id, url_hash |-> UrlHash(a.url), url |-> a.url,
           feed_name |-> a.feed_name, summary |-> s, processed_at |-> now]}

\* get_stats()['total_articles']
TotalArticles(store) == Cardinality(store)

\* get_stats()['by_feed']
ByFeed(store) ==
    [f \in {r.feed_name : r \in store} |-> Cardinality({r \in store : r.feed_name = f})]

\* _init_db that drops the table it finds and creates it anew.
InitDbRecreates(store) == {}

\* _init_db: CREATE TABLE IF NOT EXISTS and CREATE INDEX IF NOT EXISTS leave
\* an existing table and its rows as they are.
InitDb(store) == store

-----------------------------------------------------------------------------
\* notifier.py

\* Notifier.__init__: the channels built from the notify section of the
\* configuration. Indexing a key the section does not hold raises KeyError
\* before the channel is appended, and the constructor ends there.
NotifierInit(n) ==
    LET f == IF n.feishu.enabled /\ n.feishu.webhook_url THEN <<"Feishu">> ELSE <<>>
        tgOn == n.telegram.enabled /\ n.telegram.bot_token
        t == IF tgOn THEN <<"Telegram">> ELSE <<>>
        emOn == n.email.enabled /\ n.email.username
        e == IF emOn THEN <<"Email">> ELSE <<>>
    IN IF tgOn /\ ~n.telegram.has_chat_id THEN [raised |-> TRUE, notifiers |-> f]
       ELSE IF emOn /\ ~n.email.has_rest THEN [raised |-> TRUE, notifiers |-> f \o t]
       ELSE [raised |-> FALSE, notifiers |-> f \o t \o e]

\* What a transport can do with one message: accept it, answer 200 with a
\* body that reports failure, answer another status, or fail (an exception of
\* requests or smtplib).
Outcomes == {"ok", "rejected", "http_error", "exception"}

\* The result of a call: a returned value, or an exception leaving the callee.
Returned(v) == [raised |-> FALSE, value |-> v]
Raised == [raised |-> TRUE, value |-> FALSE]

\* FeishuNotifier.send without its try block: the exception leaves send.
FeishuSendNoCatch(o) ==
    IF o = "exception" THEN Raised
    ELSE IF o = "ok" THEN Returned(TRUE)
    ELSE Returned(FALSE)

\* FeishuNotifier.send: True only for status 200 with code 0 in the body;
\* the try block turns an exception into False.
FeishuSend(o) ==
    IF o = "exception" THEN Returned(FALSE)
    ELSE IF o = "ok" THEN Returned(TRUE)
    ELSE Returned(FALSE)

\* TelegramNotifier.send: status 200 gives the body's 'ok' field.
TelegramSend(o) ==
    IF o = "exception" THEN Returned(FALSE)
    ELSE IF o = "http_error" THEN Returned(FALSE)
    ELSE Returned(o = "ok")

\* EmailNotifier.send: True unless the SMTP session raised.
EmailSend(o) ==
    IF o = "exception" THEN Returned(FALSE) ELSE Returned(TRUE)

Send(name, o) ==
    CASE name = "Feishu" -> FeishuSend(o)
      [] name = "Telegram" -> TelegramSend(o)
      [] name = "Email" -> EmailSend(o)

\* What each transport can do: an SMTP session succeeds or raises.
ChannelOutcomes(name) ==
    IF name = "Email" THEN {"ok", "exception"} ELSE Outcomes

\* notify that gives up at the first channel that fails.
RECURSIVE NotifyStopAtFailure(_, _, _)
NotifyStopAtFailure(names, outs, acc) ==
    IF names = <<>> THEN [raised |-> FALSE, results |-> acc]
    ELSE LET r == Send(Head(names), outs[Head(names)]) IN
         IF r.raised THEN [raised |-> TRUE, results |-> acc]
         ELSE IF ~r.value
         THEN [raised |-> FALSE,
               results |-> Append(acc, [channel |-> Head(names), ok |-> FALSE])]
         ELSE NotifyStopAtFailure(Tail(names), outs,
                                  Append(acc, [channel |-> Head(names), ok |-> TRUE]))

\* Notifier.notify: every channel in order, each result stored under its
\* name; an exception of a send would leave notify at that channel.
RECURSIVE Notify(_, _, _)
Notify(names, outs, acc) ==
    IF names = <<>> THEN [raised |-> FALSE, results |-> acc]
    ELSE LET r == Send(Head(names), outs[Head(names)]) IN
         IF r.raised THEN [raised |-> TRUE, results |-> acc]
         ELSE Notify(Tail(names), outs,
                     Append(acc, [channel |-> Head(names), ok |-> r.value]))

\* Notifier.has_notifiers
HasNotifiers(names) == Len(names) > 0

-----------------------------------------------------------------------------
\* main.py

\* `if summary:` of run_once: None and the empty text are both false.
Truthy(s) == s # None /\ s # ""

\* A cap that keeps the last max_articles articles instead of the first.
CapKeepsLast(articles, max_articles) ==
    IF Len(articles) <= max_articles THEN articles
    ELSE SubSeq(articles, Len(articles) - max_articles + 1, Len(articles))

\* new_articles[:max_articles]
Cap(articles, max_articles) ==
    IF Len(articles) <= max_articles THEN articles
    ELSE SubSeq(articles, 1, max_articles)

-----------------------------------------------------------------------------
\* The environment of a run.

Entry(u, p) == [link |-> u, published |-> p, bad |-> FALSE]
\* An entry whose fields make the loop body of fetch_feed raise.
BadEntry(u, p) == [link |-> u, published |-> p, bad |-> TRUE]

\* What a source may serve. Times are hours relative to the first clock value.
K1 == <<Entry(1, Nothing), Entry(2, Some(0))>>
K2 == <<Entry(2, Some(-1)), Entry(3, Some(0))>>
K3 == <<Entry(EmptyLink, Nothing), Entry(4, Some(-2)), BadEntry(5, Some(0)),
        Entry(6, Some(0))>>
\* A source that carries an entry of K2 as well: the same link in two sources.
K4 == <<Entry(2, Some(0))>>
InitContents == [s \in Feeds |-> IF s = 1 THEN {K1, K3, K4} ELSE {K2}]
\* The sources that publish while the model runs, and the content of a
\* source after it published one more entry.
Publishing == {1}
Updated(k) == Append(k, Entry(7, Nothing))

\* The answers feedparser.parse gives in a run for source s to a request
\* carrying the validators etag and modified: an exception, 304 when a
\* validator matches what the server holds (a server may also ignore the
\* validators and answer in full), or the parsed feed with the validators of
\* its content.
Responses(s, etag, modified) ==
    {[kind |-> "raise"]}
    \cup (IF (etag.some /\ etag.v = ver[s]) \/ (modified.some /\ modified.v = ver[s])
          THEN {[kind |-> "304"]} ELSE {})
    \cup {[kind |-> "200", etag |-> Some(ver[s]), modified |-> Some(ver[s]),
           bozo |-> b, entries |-> content[s]] : b \in BOOLEAN}

\* What summarize(article) may return: nothing, an empty text, a text.
Summaries == {None, "", "s1"}

\* The notify sections of the configuration. enabled, webhook_url, bot_token
\* and username are TRUE when the section holds a true value for them;
\* has_chat_id and has_rest are TRUE when the section holds the keys that the
\* constructor indexes (chat_id; smtp_host, smtp_port, password, to); chat_id
\* and rest are TRUE when those keys hold values that are not empty (a key of
\* the file whose ${VAR} is not set holds the empty text).
Feishu(on, url) == [enabled |-> on, webhook_url |-> url]
Telegram(on, token, key, chat) ==
    [enabled |-> on, bot_token |-> token, has_chat_id |-> key, chat_id |-> chat]
Email(on, user, keys, rest) ==
    [enabled |-> on, username |-> user, has_rest |-> keys, rest |-> rest]
\* Those a run of the model may be started with: no channel, two channels,
\* and Telegram enabled without chat_id.
RunNotifyConfigs ==
    { [feishu |-> Feishu(FALSE, FALSE), telegram |-> Telegram(FALSE, FALSE, FALSE, FALSE),
       email |-> Email(FALSE, FALSE, FALSE, FALSE)],
      [feishu |-> Feishu(TRUE, TRUE), telegram |-> Telegram(TRUE, TRUE, TRUE, TRUE),
       email |-> Email(TRUE, FALSE, TRUE, TRUE)],
      [feishu |-> Feishu(FALSE, TRUE), telegram |-> Telegram(TRUE, TRUE, FALSE, FALSE),
       email |-> Email(FALSE, FALSE, FALSE, FALSE)] }

Configs == [max_age_hours : {1}, max_articles_per_run : {2}, notify : RunNotifyConfigs]

Row(id, a, s, t) ==
    [id |-> id, url_hash |-> UrlHash(a.url), url |-> a.url,
     feed_name |-> a.feed_name, summary |-> s, processed_at |-> t]

\* The table the first run finds: _init_db has just created it.
InitStores == { {} }

Ended == {"done", "store_error", "config_error", "cache_error", "killed"}
Running == {"fetch", "filter_age", "filter_dedup", "cap", "init_notifier", "loop"}

InWindow(a, now) == ~a.published.some \/ a.published.v >= now - config.max_age_hours

Event(op, a, ch, txt, ok) ==
    [op |-> op, article |-> a, channel |-> ch, text |-> txt, ok |-> ok]

NoSnapshot == [db |-> {}, cacheFile |-> CacheFile("missing", EmptyCache)]

LocalsInit ==
    /\ cache = EmptyCache
    /\ feedIdx = 1
    /\ all_articles = <<>>
    /\ recent_articles = <<>>
    /\ new_articles = <<>>
    /\ articles_to_process = <<>>
    /\ notifiers = <<>>
    /\ i = 1
    /\ sub = "summarize"
    /\ summary = None
    /\ results = <<>>
    /\ success_count = 0

LocalsReset ==
    /\ cache' = EmptyCache
    /\ feedIdx' = 1
    /\ all_articles' = <<>>
    /\ recent_articles' = <<>>
    /\ new_articles' = <<>>
    /\ articles_to_process' = <<>>
    /\ notifiers' = <<>>
    /\ i' = 1
    /\ sub' = "summarize"
    /\ summary' = None
    /\ results' = <<>>
    /\ success_count' = 0

FnIdle ==
    /\ fnPc = "off"
    /\ fnIn = <<>>
    /\ fnOut = <<>>
    /\ fnOut2 = <<>>
    /\ fnSnap = {}
    /\ fnK = 0
    /\ fnI = 1
    /\ fnCalls = <<>>


Init ==
    /\ db \in InitStores
    /\ nextId = Cardinality(db) + 1
    /\ cacheFile \in {CacheFile(st, EmptyCache) : st \in {"missing", "malformed", "undecodable"}}
    /\ clock = 0
    /\ config \in Configs
    /\ content \in [Feeds -> {K1, K2, K3, K4}]
    /\ \A s \in Feeds : content[s] \in InitContents[s]
    /\ ver = [s \in Feeds |-> 1]
    /\ updates = 0
    /\ ticks = 0
    /\ runs = 0
    /\ pc = "idle"
    /\ LocalsInit
    /\ fetched = <<>>
    /\ log = <<>>
    /\ atStart = NoSnapshot
    /\ owed = {}
    /\ cacheOps = <<>>
    /\ FnIdle

-----------------------------------------------------------------------------
\* run_once, step by step.

\* main builds Storage, whose constructor runs _init_db on the table it
\* finds, and run_once is entered; fetch_all_feeds loads the cache. An
\* exception of load_cache leaves fetch_all_feeds, run_once and main.
StartRun ==
    /\ pc = "idle"
    /\ runs < MaxRuns
    /\ runs' = runs + 1
    /\ LET r == LoadCache(cacheFile) IN
         /\ pc' = IF r.raised THEN "cache_error" ELSE "fetch"
         /\ cache' = r.cache
    /\ db' = InitDb(db)
    /\ atStart' = [db |-> db', cacheFile |-> cacheFile]
    /\ cacheOps' = <<"load">>
    /\ UNCHANGED <<nextId, cacheFile, clock, config, envVars, feedIdx, all_articles, recent_articles,
                   new_articles, articles_to_process, notifiers, i, sub, summary,
                   results, success_count, fetched, log, owed, fnVars>>

\* One iteration of the loop of fetch_all_feeds: fetch_feed for the next feed.
FetchOne ==
    /\ pc = "fetch"
    /\ feedIdx <= Len(FeedSeq)
    /\ LET s == FeedSeq[feedIdx]
           fc == FeedCache(cache, s)
       IN \E resp \in Responses(s, fc.etag, fc.modified) :
            LET r == FetchFeed(s, cache, resp) IN
            /\ cache' = r.cache
            /\ all_articles' = all_articles \o r.articles
            /\ fetched' = Append(fetched, [feed |-> s, outcome |-> r.outcome,
                                           articles |-> r.articles])
    /\ feedIdx' = feedIdx + 1
    /\ cacheOps' = Append(cacheOps, "fetch")
    /\ UNCHANGED <<persistVars, config, envVars, runs, pc, recent_articles,
                   new_articles, articles_to_process, notifiers, i, sub, summary,
                   results, success_count, log, atStart, owed, fnVars>>

\* The end of fetch_all_feeds: save_cache(cache).
SaveCacheStep ==
    /\ pc = "fetch"
    /\ feedIdx > Len(FeedSeq)
    /\ cacheFile' = SaveCache(cache)
    /\ cacheOps' = Append(cacheOps, "save")
    /\ pc' = "filter_age"
    /\ UNCHANGED <<db, nextId, clock, config, envVars, runs, localVars, fetched, log,
                   atStart, owed, fnVars>>

\* Step 2 of run_once: filter_by_age.
FilterAgeStep ==
    /\ pc = "filter_age"
    /\ recent_articles' = FilterByAge(all_articles, config.max_age_hours, clock)
    /\ pc' = "filter_dedup"
    /\ UNCHANGED <<persistVars, config, envVars, runs, cache, feedIdx, all_articles,
                   new_articles, articles_to_process, notifiers, i, sub, summary,
                   results, success_count, histVars, fnVars>>

\* Step 3: filter_new_articles, and the return when nothing is new.
FilterDedupStep ==
    /\ pc = "filter_dedup"
    /\ new_articles' = FilterNewArticles(db, recent_articles)
    /\ pc' = IF new_articles' = <<>> THEN "done" ELSE "cap"
    /\ UNCHANGED <<persistVars, config, envVars, runs, cache, feedIdx, all_articles,
                   recent_articles, articles_to_process, notifiers, i, sub, summary,
                   results, success_count, histVars, fnVars>>

\* Step 4: the first max_articles_per_run new articles.
CapStep ==
    /\ pc = "cap"
    /\ articles_to_process' = Cap(new_articles, config.max_articles_per_run)
    /\ pc' = "init_notifier"
    /\ UNCHANGED <<persistVars, config, envVars, runs, cache, feedIdx, all_articles,
                   recent_articles, new_articles, notifiers, i, sub, summary,
                   results, success_count, histVars, fnVars>>

\* Steps 5 and 6: Notifier(notify_config); a KeyError leaves run_once.
InitNotifierStep ==
    /\ pc = "init_notifier"
    /\ LET r == NotifierInit(config.notify) IN
         IF r.raised
         THEN /\ pc' = "config_error"
              /\ UNCHANGED notifiers
         ELSE /\ pc' = "loop"
              /\ notifiers' = r.notifiers
    /\ UNCHANGED <<persistVars, config, envVars, runs, cache, feedIdx, all_articles,
                   recent_articles, new_articles, articles_to_process, i, sub, summary,
                   results, success_count, histVars, fnVars>>

\* Step 7, line 93: summarizer.summarize(article), and the branches that follow.
SummarizeStep ==
    /\ pc = "loop"
    /\ sub = "summarize"
    /\ i <= Len(articles_to_process)
    /\ \E s \in Summaries :
         /\ summary' = s
         /\ log' = Append(log, Event("summarize", articles_to_process[i], None, s, FALSE))
         /\ sub' = IF Truthy(s) /\ HasNotifiers(notifiers) THEN "notify" ELSE "mark"
    /\ UNCHANGED <<persistVars, config, envVars, runs, pc, cache, feedIdx, all_articles,
                   recent_articles, new_articles, articles_to_process, notifiers, i,
                   results, success_count, fetched, atStart, owed, cacheOps, fnVars>>

RECURSIVE SendEvents(_, _)
SendEvents(a, res) ==
    IF res = <<>> THEN <<>>
    ELSE <<Event("send", a, Head(res).channel, None, Head(res).ok)>>
         \o SendEvents(a, Tail(res))

\* Step 7, line 99: notifier.notify(article, summary).
NotifyStep ==
    /\ pc = "loop"
    /\ sub = "notify"
    /\ \E outs \in [Range(notifiers) -> Outcomes] :
         /\ \A ch \in Range(notifiers) : outs[ch] \in ChannelOutcomes(ch)
         /\ LET r == Notify(notifiers, outs, <<>>) IN
                    /\ results' = r.results
            /\ log' = log \o SendEvents(articles_to_process[i], r.results)
            /\ IF r.raised
               THEN pc' = "notify_error" /\ UNCHANGED sub
               ELSE sub' = "mark" /\ UNCHANGED pc
    /\ UNCHANGED <<persistVars, config, envVars, runs, cache, feedIdx, all_articles,
                   recent_articles, new_articles, articles_to_process, notifiers, i,
                   summary, success_count, fetched, atStart, owed, cacheOps, fnVars>>

\* Step 7, lines 105 and 110: storage.mark_processed; the loop moves on.
MarkStep ==
    /\ pc = "loop"
    /\ sub = "mark"
    /\ LET a == articles_to_process[i]
           s == IF Truthy(summary) THEN summary ELSE None
       IN /\ db' = MarkProcessed(db, nextId, a, s, clock)
          /\ log' = Append(log, Event("mark", a, None, s, FALSE))
    /\ nextId' = nextId + 1
    /\ success_count' = IF Truthy(summary) THEN success_count + 1 ELSE success_count
    /\ i' = i + 1
    /\ sub' = "summarize"
    /\ summary' = None
    /\ results' = <<>>
    /\ UNCHANGED <<cacheFile, clock, config, envVars, runs, pc, cache, feedIdx,
                   all_articles, recent_articles, new_articles, articles_to_process,
                   notifiers, fetched, atStart, owed, cacheOps, fnVars>>

\* The write of mark_processed fails (sqlite3 raises): nothing is written
\* and the exception leaves run_once and main.
MarkFails ==
    /\ pc = "loop"
    /\ sub = "mark"
    /\ pc' = "store_error"
    /\ UNCHANGED <<persistVars, config, envVars, runs, localVars, histVars, fnVars>>

\* Step 8: the loop is over, the statistics are printed.
Finish ==
    /\ pc = "loop"
    /\ sub = "summarize"
    /\ i > Len(articles_to_process)
    /\ pc' = "done"
    /\ UNCHANGED <<persistVars, config, envVars, runs, localVars, histVars, fnVars>>

\* The process is terminated during a run: what it held in memory is gone.
Interrupt ==
    /\ pc \in Running
    /\ pc' = "killed"
    /\ owed' = {a \in Range(all_articles) : InWindow(a, clock) /\ ~IsProcessed(db, a)}
    /\ LocalsReset
    /\ fetched' = <<>>
    /\ log' = <<>>
    /\ UNCHANGED <<persistVars, config, envVars, runs, atStart, cacheOps, fnVars>>

\* run_once has returned or the process has ended; the next run starts afresh.
Exit ==
    /\ pc \in Ended
    /\ pc' = "idle"
    /\ LocalsReset
    /\ fetched' = <<>>
    /\ log' = <<>>
    /\ atStart' = NoSnapshot
    /\ cacheOps' = <<>>
    /\ owed' = IF pc = "done" THEN {} ELSE owed
    /\ UNCHANGED <<persistVars, config, envVars, runs, fnVars>>

\* Time passes between runs.
Tick ==
    /\ pc = "idle"
    /\ ticks < MaxTicks
    /\ ticks' = ticks + 1
    /\ clock' = clock + 1
    /\ UNCHANGED <<db, nextId, cacheFile, config, content, ver, updates, runs, pc,
                   localVars, histVars, fnVars>>

\* A source publishes one more entry between runs.
FeedUpdate ==
    /\ pc = "idle"
    /\ updates < MaxUpdates
    /\ \E s \in Publishing :
         /\ content' = [content EXCEPT ![s] = Updated(content[s])]
         /\ ver' = [ver EXCEPT ![s] = ver[s] + 1]
    /\ updates' = updates + 1
    /\ owed' = {}
    /\ UNCHANGED <<persistVars, config, ticks, runs, pc, localVars, fetched, log,
                   atStart, cacheOps, fnVars>>

Next ==
    \/ StartRun
    \/ FetchOne
    \/ SaveCacheStep
    \/ FilterAgeStep
    \/ FilterDedupStep
    \/ CapStep
    \/ InitNotifierStep
    \/ SummarizeStep
    \/ NotifyStep
    \/ MarkStep
    \/ MarkFails
    \/ Finish
    \/ Interrupt
    \/ Exit
    \/ Tick
    \/ FeedUpdate

Spec == Init /\ [][Next]_vars

-----------------------------------------------------------------------------
\* The scheduler: run_once again and again, without end.

\* run_scheduler calls run_once at once and then at every interval, as long
\* as the process lives; a process that ended is started again (by hand, by
\* cron with --once). The run starts as in StartRun; runs are not counted.
ScheduleRun ==
    /\ pc = "idle"
    /\ LET r == LoadCache(cacheFile) IN
         /\ pc' = IF r.raised THEN "cache_error" ELSE "fetch"
         /\ cache' = r.cache
    /\ db' = InitDb(db)
    /\ atStart' = [db |-> db', cacheFile |-> cacheFile]
    /\ cacheOps' = <<"load">>
    /\ UNCHANGED <<nextId, cacheFile, clock, config, envVars, runs, feedIdx, all_articles,
                   recent_articles, new_articles, articles_to_process, notifiers, i, sub,
                   summary, results, success_count, fetched, log, owed, fnVars>>

\* The next statement of a run that is under way.
RunStep ==
    \/ FetchOne
    \/ SaveCacheStep
    \/ FilterAgeStep
    \/ FilterDedupStep
    \/ CapStep
    \/ InitNotifierStep
    \/ SummarizeStep
    \/ NotifyStep
    \/ MarkStep
    \/ Finish

LiveNext ==
    \/ ScheduleRun
    \/ RunStep
    \/ MarkFails
    \/ Interrupt
    \/ Exit
    \/ Tick
    \/ FeedUpdate

\* The interpreter executes the next statement of a run, a run that ended
\* leaves the stack, and the scheduler starts the next run. Nothing obliges
\* a server to answer in one way rather than another, a write to fail, the
\* process to be killed, time to pass or a source to publish.
LiveSpec ==
    /\ Init
    /\ [][LiveNext]_vars
    /\ WF_vars(ScheduleRun)
    /\ WF_vars(RunStep)
    /\ WF_vars(Exit)

-----------------------------------------------------------------------------
\* MarkSpec: the methods of Storage called directly in any order:
\* mark_processed for any article with any summary, _init_db on the table as
\* it is, is_processed, filter_new_articles and get_stats, time passing
\* between the calls.

StoreArticles == {Article(u, Nothing, 1) : u \in 1..NUrls}
StoreSummaries == {None, "s1", "s2"}
RECURSIVE SeqsUpTo(_, _)
SeqsUpTo(S, n) ==
    IF n = 0 THEN {<<>>}
    ELSE LET shorter == SeqsUpTo(S, n - 1)
         IN shorter \cup {Append(q, x) : q \in {p \in shorter : Len(p) = n - 1}, x \in S}
StoreInputs == SeqsUpTo(StoreArticles, MaxLen)

\* The last two calls of mark_processed.
LastTwo(calls) == IF Len(calls) <= 2 THEN calls ELSE Tail(calls)
Call(a, s, t) == [article |-> a, summary |-> s, at |-> t]

RunOff ==
    /\ cacheFile = CacheFile("missing", EmptyCache)
    /\ config \in {c \in Configs : NotifierInit(c.notify).notifiers = <<>>
                                   /\ ~NotifierInit(c.notify).raised}
    /\ content = [s \in Feeds |-> K2]
    /\ ver = [s \in Feeds |-> 1]
    /\ updates = 0
    /\ ticks = 0
    /\ runs = 0
    /\ pc = "off"
    /\ LocalsInit
    /\ fetched = <<>>
    /\ log = <<>>
    /\ atStart = NoSnapshot
    /\ owed = {}
    /\ cacheOps = <<>>

runVars == <<cacheFile, config, envVars, runs, pc, localVars, histVars>>

FnStart ==
    /\ fnIn = <<>>
    /\ fnOut = <<>>
    /\ fnOut2 = <<>>
    /\ fnSnap = {}
    /\ fnK = 0
    /\ fnI = 1
    /\ fnCalls = <<>>

\* The last call and what it returned.
Result(op, v) == [op |-> op, value |-> v]

MarkInit ==
    /\ db = InitDb({})
    /\ nextId = 1
    /\ clock = 0
    /\ RunOff
    /\ fnPc = "mark_calls"
    /\ fnIn = <<>>
    /\ fnOut = Result("__init__", None)
    /\ fnOut2 = <<>>
    /\ fnSnap = {}
    /\ fnK = 0
    /\ fnI = 1
    /\ fnCalls = <<>>

\* mark_processed(article, summary) for any article and summary.
CallMark ==
    /\ fnPc = "mark_calls"
    /\ fnK < MaxCalls
    /\ \E a \in StoreArticles, s \in StoreSummaries :
         /\ db' = MarkProcessed(db, nextId, a, s, clock)
         /\ fnCalls' = LastTwo(Append(fnCalls, Call(a, s, clock)))
    /\ nextId' = nextId + 1
    /\ fnK' = fnK + 1
    /\ fnOut' = Result("mark_processed", None)
    /\ UNCHANGED <<clock, runVars, fnPc, fnIn, fnOut2, fnSnap, fnI>>

\* Storage(db_path) once more on the same file: _init_db.
CallInitDb ==
    /\ fnPc = "mark_calls"
    /\ db' = InitDb(db)
    /\ fnOut' = Result("_init_db", None)
    /\ UNCHANGED <<nextId, clock, runVars, fnPc, fnIn, fnOut2, fnSnap, fnK, fnI, fnCalls>>

\* is_processed(article) for any article.
CallIsProcessed ==
    /\ fnPc = "mark_calls"
    /\ \E a \in StoreArticles : fnOut' = Result("is_processed", IsProcessed(db, a))
    /\ UNCHANGED <<db, nextId, clock, runVars, fnPc, fnIn, fnOut2, fnSnap, fnK, fnI, fnCalls>>

\* filter_new_articles(articles) for any list of up to two articles.
CallFilterNewArticles ==
    /\ fnPc = "mark_calls"
    /\ \E input \in SeqsUpTo(StoreArticles, 2) :
         fnOut' = Result("filter_new_articles", FilterNewArticles(db, input))
    /\ UNCHANGED <<db, nextId, clock, runVars, fnPc, fnIn, fnOut2, fnSnap, fnK, fnI, fnCalls>>

\* get_stats()
CallGetStats ==
    /\ fnPc = "mark_calls"
    /\ fnOut' = Result("get_stats", [total_articles |-> TotalArticles(db),
                                       by_feed |-> ByFeed(db)])
    /\ UNCHANGED <<db, nextId, clock, runVars, fnPc, fnIn, fnOut2, fnSnap, fnK, fnI, fnCalls>>

\* Time passes between two calls.
MarkTick ==
    /\ fnPc = "mark_calls"
    /\ clock < MaxTicks
    /\ clock' = clock + 1
    /\ UNCHANGED <<db, nextId, runVars, fnVars>>

MarkNext ==
    \/ CallMark
    \/ CallInitDb
    \/ CallIsProcessed
    \/ CallFilterNewArticles
    \/ CallGetStats
    \/ MarkTick

MarkSpec == MarkInit /\ [][MarkNext]_vars

-----------------------------------------------------------------------------
\* StoreSpec: on a table that earlier calls of mark_processed have filled,
\* filter_new_articles on any list, mark_processed on every article it
\* returned, and filter_new_articles on the same list again.

\* What earlier calls did with each url: none, or one with or without summary.
Earlier == [1..NUrls -> {"unmarked", None, "s1"}]

\* The table after those calls, made in the order of the urls.
RECURSIVE StoreAfter(_, _)
StoreAfter(m, u) ==
    IF u = 0 THEN {}
    ELSE LET before == StoreAfter(m, u - 1)
         IN IF m[u] = "unmarked" THEN before
            ELSE MarkProcessed(before, Cardinality(before) + 1,
                               Article(u, Nothing, 1), m[u], 0)

StoreInit ==
    /\ \E m \in Earlier : db = StoreAfter(m, NUrls)
    /\ nextId = Cardinality(db) + 1
    /\ clock = 0
    /\ RunOff
    /\ fnPc = "store_start"
    /\ FnStart

\* filter_new_articles(articles) for any list.
CallFilterNew ==
    /\ fnPc = "store_start"
    /\ \E input \in StoreInputs :
         /\ fnIn' = input
         /\ fnOut' = FilterNewArticles(db, input)
    /\ fnSnap' = db
    /\ fnI' = 1
    /\ fnPc' = "store_marking"
    /\ UNCHANGED <<db, nextId, clock, runVars, fnOut2, fnK, fnCalls>>

\* mark_processed on the next article the filter returned.
CallMarkReturned ==
    /\ fnPc = "store_marking"
    /\ fnI <= Len(fnOut)
    /\ \E s \in {None, "s1"} :
         /\ db' = MarkProcessed(db, nextId, fnOut[fnI], s, clock)
         /\ fnCalls' = LastTwo(Append(fnCalls, Call(fnOut[fnI], s, clock)))
    /\ nextId' = nextId + 1
    /\ fnI' = fnI + 1
    /\ UNCHANGED <<clock, runVars, fnPc, fnIn, fnOut, fnOut2, fnSnap, fnK>>

\* filter_new_articles on the same list once all of them are marked.
CallFilterAgain ==
    /\ fnPc = "store_marking"
    /\ fnI > Len(fnOut)
    /\ fnOut2' = FilterNewArticles(db, fnIn)
    /\ fnPc' = "store_end"
    /\ UNCHANGED <<db, nextId, clock, runVars, fnIn, fnOut, fnSnap, fnK, fnI, fnCalls>>

\* Time passes between two calls.
StoreTick ==
    /\ fnPc = "store_marking"
    /\ clock < MaxTicks
    /\ clock' = clock + 1
    /\ UNCHANGED <<db, nextId, runVars, fnVars>>

StoreNext ==
    \/ CallFilterNew
    \/ CallMarkReturned
    \/ CallFilterAgain
    \/ StoreTick

StoreSpec == StoreInit /\ [][StoreNext]_vars

-----------------------------------------------------------------------------
\* NotifySpec: Notifier(config) for any notify section, then notify(article,
\* summary) under any behaviour of the transports.

AllNotifyConfigs ==
    {n \in [feishu : [enabled : BOOLEAN, webhook_url : BOOLEAN],
            telegram : [enabled : BOOLEAN, bot_token : BOOLEAN,
                        has_chat_id : BOOLEAN, chat_id : BOOLEAN],
            email : [enabled : BOOLEAN, username : BOOLEAN,
                     has_rest : BOOLEAN, rest : BOOLEAN]] :
        /\ n.telegram.chat_id => n.telegram.has_chat_id
        /\ n.email.rest => n.email.has_rest}

Channels == {"Feishu", "Telegram", "Email"}
AllOuts == {o \in [Channels -> Outcomes] : \A ch \in Channels : o[ch] \in ChannelOutcomes(ch)}

NotifyInit ==
    /\ db = {}
    /\ nextId = 1
    /\ clock = 0
    /\ RunOff
    /\ fnPc = "notify_start"
    /\ fnIn \in [notify : AllNotifyConfigs, outs : AllOuts]
    /\ fnOut = [raised |-> FALSE, notifiers |-> <<>>]
    /\ fnOut2 = [raised |-> FALSE, results |-> <<>>]
    /\ fnSnap = {}
    /\ fnK = 0
    /\ fnI = 1
    /\ fnCalls = <<>>

\* Notifier(notify_config)
Construct ==
    /\ fnPc = "notify_start"
    /\ fnOut' = NotifierInit(fnIn.notify)
    /\ fnPc' = IF fnOut'.raised THEN "notify_config_error" ELSE "notify_built"
    /\ UNCHANGED <<persistVars, runVars, fnIn, fnOut2, fnSnap, fnK, fnI, fnCalls>>

\* notifier.notify(article, summary)
Dispatch ==
    /\ fnPc = "notify_built"
    /\ fnOut2' = Notify(fnOut.notifiers, fnIn.outs, <<>>)
    /\ fnPc' = "notify_sent"
    /\ UNCHANGED <<db, nextId, clock, runVars, fnIn, fnOut, fnSnap, fnK, fnI, fnCalls>>

NotifyNext ==
    \/ Construct
    \/ Dispatch

NotifySpec == NotifyInit /\ [][NotifyNext]_vars

-----------------------------------------------------------------------------
\* FetchSpec: fetch_feed called directly for either source, on any cache dict
\* and under any answer of feedparser.parse.

\* The validator tokens a cache entry may hold and a response may carry.
CachedTokens == {Nothing, Some(1)}
ReturnedTokens == {Nothing, Some(1), Some(2)}
CacheEntries == {NoEntry} \cup {CacheEntry(e, m) : e \in CachedTokens, m \in CachedTokens}
\* feedparser.parse raised, answered 304, or returned a parsed feed: with or
\* without each token, well-formed or not (bozo), with or without entries.
AllResponses ==
    {[kind |-> "raise"], [kind |-> "304"]}
    \cup {[kind |-> "200", etag |-> e, modified |-> m, bozo |-> b, entries |-> k] :
            e \in ReturnedTokens, m \in ReturnedTokens, b \in BOOLEAN,
            k \in {<<>>, K1, K3}}
FetchInputs ==
    {x \in [feed : Feeds, cache : [Feeds -> CacheEntries], resp : AllResponses] :
        x.resp.kind = "304" => (x.cache[x.feed].etag.some \/ x.cache[x.feed].modified.some)}

FetchInit ==
    /\ db = {}
    /\ nextId = 1
    /\ clock = 0
    /\ RunOff
    /\ fnPc = "fetch_start"
    /\ fnIn \in FetchInputs
    /\ fnOut = <<>>
    /\ fnOut2 = <<>>
    /\ fnSnap = {}
    /\ fnK = 0
    /\ fnI = 1
    /\ fnCalls = <<>>

\* fetch_feed(feed_config, cache).
CallFetchFeed ==
    /\ fnPc = "fetch_start"
    /\ fnOut' = FetchFeed(fnIn.feed, fnIn.cache, fnIn.resp)
    /\ fnPc' = "fetch_done"
    /\ UNCHANGED <<db, nextId, clock, runVars, fnIn, fnOut2, fnSnap, fnK, fnI, fnCalls>>

FetchNext ==
    \/ CallFetchFeed

FetchSpec == FetchInit /\ [][FetchNext]_vars

-----------------------------------------------------------------------------
\* ContentSpec: the content that fetch_feed gives to the article of any
\* entry.

Pieces == {"w", " ", "<b>", "&lt;"}
Texts == SeqsUpTo(Pieces, MaxText)
\* An attribute of an entry: not there, or holding a text.
NoField == [has |-> FALSE, text |-> <<>>]
Field(t) == [has |-> TRUE, text |-> t]
\* entry.content: not there, or a list, empty or of one dict with or without
\* the key 'value'.
NoContent == [has |-> FALSE, items |-> <<>>]
ContentList(items) == [has |-> TRUE, items |-> items]
ContentFields ==
    {NoContent, ContentList(<<>>), ContentList(<<NoField>>)}
    \cup {ContentList(<<Field(t)>>) : t \in Texts}
TextFields == {NoField} \cup {Field(t) : t \in Texts}
ContentInputs == [content : ContentFields, summary : TextFields, description : TextFields]

ContentInit ==
    /\ db = {}
    /\ nextId = 1
    /\ clock = 0
    /\ RunOff
    /\ fnPc = "content_start"
    /\ fnIn \in ContentInputs
    /\ fnOut = <<>>
    /\ fnOut2 = <<>>
    /\ fnSnap = {}
    /\ fnK = 0
    /\ fnI = 1
    /\ fnCalls = <<>>

\* The loop body of fetch_feed for one entry that has a link.
BuildContent ==
    /\ fnPc = "content_start"
    /\ fnOut' = <<EntryContent(fnIn)>>
    /\ fnPc' = "content_done"
    /\ UNCHANGED <<db, nextId, clock, runVars, fnIn, fnOut2, fnSnap, fnK, fnI, fnCalls>>

ContentNext ==
    \/ BuildContent

ContentSpec == ContentInit /\ [][ContentNext]_vars

-----------------------------------------------------------------------------
\* AgeSpec: filter_by_age called directly on any list of articles, at any
\* time and with any max_age_hours. Times are hours.

AgeTimes == {Nothing} \cup {Some(t) : t \in -2..1}
AgeArticles == {Article(u, p, 1) : u \in {1, 2}, p \in AgeTimes}
AgeInputs == [articles : SeqsUpTo(AgeArticles, MaxLen), max_age_hours : 0..2]

AgeInit ==
    /\ db = {}
    /\ nextId = 1
    /\ clock \in 0..MaxTicks
    /\ RunOff
    /\ fnPc = "age_start"
    /\ fnIn \in AgeInputs
    /\ fnOut = <<>>
    /\ fnOut2 = <<>>
    /\ fnSnap = fnIn.articles
    /\ fnK = 0
    /\ fnI = 1
    /\ fnCalls = <<>>

\* filter_by_age(articles, max_age_hours) at the time of the clock.
CallFilterByAge ==
    /\ fnPc = "age_start"
    /\ fnOut' = FilterByAge(fnIn.articles, fnIn.max_age_hours, clock)
    /\ fnPc' = "age_done"
    /\ UNCHANGED <<db, nextId, clock, runVars, fnIn, fnOut2, fnSnap, fnK, fnI, fnCalls>>

AgeNext ==
    \/ CallFilterByAge

AgeSpec == AgeInit /\ [][AgeNext]_vars

-----------------------------------------------------------------------------
\* The claims.

FingerprintRows(store, a) == {r \in store : r.url_hash = UrlHash(a.url)}
Min(a, b) == IF a <= b THEN a ELSE b
SummarizedIn(l, a) == \E j \in 1..Len(l) : l[j].op = "summarize" /\ l[j].article = a
MarkedIn(l, a) == \E j \in 1..Len(l) : l[j].op = "mark" /\ l[j].article = a

\* C1 (MarkSpec): after any sequence of mark_processed calls the table holds
\* at most one row per fingerprint, and the fingerprint of the last call has
\* exactly one row, which carries the summary and the time of that call.
C1_OneRecordPerFingerprint ==
    /\ \A r1, r2 \in db : r1.url_hash = r2.url_hash => r1 = r2
    /\ fnCalls # <<>> =>
         LET c == fnCalls[Len(fnCalls)]
             rows == FingerprintRows(db, c.article)
         IN /\ Cardinality(rows) = 1
            /\ \A r \in rows : /\ r.summary = c.summary
                               /\ r.processed_at = c.at
                               /\ r.url = c.article.url

\* The same article marked with s1 and then, later, with s2.
C1_Witness ==
    /\ Len(fnCalls) = 2
    /\ fnCalls[1].article = fnCalls[2].article
    /\ fnCalls[1].summary = "s1"
    /\ fnCalls[2].summary = "s2"
    /\ fnCalls[2].at > fnCalls[1].at
    /\ \E r \in db : r.url_hash = UrlHash(fnCalls[2].article.url) /\ r.summary = "s2"

\* C2 (Spec): every article of the capped batch that the loop has passed is
\* marked in this run and has a row, whatever summarize returned, with or
\* without channels and whatever the sends returned; when the run is done
\* this holds for the whole batch.
C2_BatchRecorded ==
    \A k \in 1..Len(articles_to_process) :
        (pc = "done" \/ (pc \in {"loop", "store_error"} /\ k < i)) =>
            /\ MarkedIn(log, articles_to_process[k])
            /\ IsProcessed(db, articles_to_process[k])

\* A finished run of two articles, one without summary and one with a
\* summary whose send failed on a channel.
C2_Witness ==
    /\ pc = "done"
    /\ Len(articles_to_process) = 2
    /\ \E j \in 1..Len(log) : log[j].op = "summarize" /\ log[j].text = None
    /\ \E j \in 1..Len(log) : log[j].op = "send" /\ ~log[j].ok

\* C3 (Spec): when summarize returns nothing for an article, the next call is
\* mark_processed for it with no summary and the row it leaves has no
\* summary; and an article whose fingerprint had a row without summary when
\* a run started is not among the new articles of that run and is neither
\* summarized nor sent in it.
C3_AbsentRecordedNotRetried ==
    /\ \A j \in 1..Len(log) :
         (log[j].op = "summarize" /\ ~Truthy(log[j].text)) =>
            /\ j = Len(log) => (sub = "mark" /\ summary = log[j].text)
            /\ j < Len(log) =>
                 /\ log[j + 1].op = "mark"
                 /\ log[j + 1].article = log[j].article
                 /\ log[j + 1].text = None
            /\ j + 1 = Len(log) =>
                 \A r \in FingerprintRows(db, log[j].article) : r.summary = None
            /\ j + 1 = Len(log) => FingerprintRows(db, log[j].article) # {}
    /\ \A r \in atStart.db : r.summary = None =>
         /\ \A a \in Range(new_articles) : UrlHash(a.url) # r.url_hash
         /\ \A j \in 1..Len(log) : UrlHash(log[j].article.url) # r.url_hash

\* A second run fetches, inside the age window, an article that an earlier
\* run recorded without summary.
C3_Witness ==
    /\ runs = 2
    /\ pc = "done"
    /\ \E a \in Range(recent_articles) :
         \E r \in atStart.db : r.url_hash = UrlHash(a.url) /\ r.summary = None

\* C4 as claimed (Spec): in a run that completes every new article is
\* summarized at least once.
C4_EveryNewAttempted ==
    pc = "done" => \A a \in Range(new_articles) : SummarizedIn(log, a)

\* C4 amended (Spec): in a run that completes the batch is the first
\* max_articles_per_run new articles, every article of the batch is
\* summarized, and after every summarize that returned a non-empty text, when
\* channels exist, the next calls are one send per configured channel, in the
\* configured order, for that article.
C4_BatchAttempted ==
    pc = "done" =>
        /\ articles_to_process =
             SubSeq(new_articles, 1, Min(Len(new_articles), config.max_articles_per_run))
        /\ \A k \in 1..Len(articles_to_process) : SummarizedIn(log, articles_to_process[k])
        /\ \A j \in 1..Len(log) :
             (log[j].op = "summarize" /\ Truthy(log[j].text)) =>
                \A n \in 1..Len(notifiers) :
                    /\ j + n <= Len(log)
                    /\ log[j + n].op = "send"
                    /\ log[j + n].article = log[j].article
                    /\ log[j + n].channel = notifiers[n]

\* A finished run whose cap cut new articles off and in which one article
\* was sent with success on one channel and failure on another.
C4_Witness ==
    /\ pc = "done"
    /\ Len(new_articles) > Len(articles_to_process)
    /\ \E j, k \in 1..Len(log) :
         /\ log[j].op = "send" /\ log[k].op = "send"
         /\ log[j].article = log[k].article
         /\ log[j].channel # log[k].channel
         /\ log[j].ok /\ ~log[k].ok

\* C5 (NotifySpec): notify returns, without raising, one entry per
\* configured channel and no other, and the entry of a channel whose
\* transport did not accept the message is False.
C5_NotifyIsolatesChannels ==
    fnPc = "notify_sent" =>
        /\ ~fnOut2.raised
        /\ Len(fnOut2.results) = Len(fnOut.notifiers)
        /\ {r.channel : r \in Range(fnOut2.results)} = Range(fnOut.notifiers)
        /\ \A r \in Range(fnOut2.results) : fnIn.outs[r.channel] # "ok" => ~r.ok

\* Three channels: the first raises inside send, the other two deliver.
C5_Witness ==
    /\ fnPc = "notify_sent"
    /\ fnOut.notifiers = <<"Feishu", "Telegram", "Email">>
    /\ fnIn.outs["Feishu"] = "exception"
    /\ fnOut2.results[1] = [channel |-> "Feishu", ok |-> FALSE]
    /\ fnOut2.results[2].ok
    /\ fnOut2.results[3].ok

\* The positions of the list whose fingerprint has no row in the table.
Unrecorded(store, input) ==
    {k \in 1..Len(input) : \A r \in store : r.url_hash # UrlHash(input[k].url)}

\* C6 (StoreSpec): filter_new_articles returns the articles at the
\* unrecorded positions of its input, in input order, and leaves the table as
\* it was.
C6_FilterNewExact ==
    fnPc \in {"store_marking", "store_end"} =>
        LET keep == Unrecorded(fnSnap, fnIn) IN
        /\ Len(fnOut) = Cardinality(keep)
        /\ \A j \in 1..Len(fnOut) :
             \E k \in keep : /\ Cardinality({m \in keep : m <= k}) = j
                             /\ fnOut[j] = fnIn[k]
        /\ fnI = 1 => db = fnSnap

\* A list of three with the recorded article in the middle: two distinct
\* articles come back.
C6_Witness ==
    /\ fnPc = "store_marking"
    /\ fnI = 1
    /\ Len(fnIn) = 3
    /\ IsProcessed(fnSnap, fnIn[2])
    /\ Len(fnOut) = 2
    /\ fnOut[1] # fnOut[2]

\* C7 (StoreSpec): filter_new_articles, mark_processed on every article
\* returned, filter_new_articles on the same input: the second result is
\* empty.
C7_SecondFilterEmpty ==
    fnPc = "store_end" => fnOut2 = <<>>

\* The first filter returned two articles, one of them then marked without
\* summary.
C7_Witness ==
    /\ fnPc = "store_end"
    /\ Len(fnOut) >= 2
    /\ \E k \in 1..Len(fnCalls) : fnCalls[k].summary = None

\* C8 as claimed (Spec): a source whose fetch ended in an error contributes
\* no article, and once fetching is over every configured source was fetched.
C8_FailedSourceYieldsNothing ==
    /\ \A k \in 1..Len(fetched) :
         fetched[k].outcome \in {"raise", "bozo_empty", "entry_error"} =>
            fetched[k].articles = <<>>
    /\ pc \in (Running \ {"fetch"}) \cup {"done", "store_error", "config_error"} =>
         {fetched[k].feed : k \in 1..Len(fetched)} = Feeds

\* C9 as claimed (Spec): when a write of mark_processed has failed, every
\* article delivered to a channel in this run has a row.
C9_NoDispatchedUnrecorded ==
    pc = "store_error" =>
        \A j \in 1..Len(log) :
            (log[j].op = "send" /\ log[j].ok) => IsProcessed(db, log[j].article)

\* C10 as claimed (Spec): a run that completes, with every source answering
\* without error, after an interrupted run over the same content has selected
\* as new and recorded every article that the interrupted run had fetched and
\* not recorded and that is inside the age window.
C10_InterruptedRunRecovered ==
    (pc = "done" /\ \A k \in 1..Len(fetched) : fetched[k].outcome \in {"ok", "not_modified"}) =>
        \A a \in owed :
            InWindow(a, clock) =>
                /\ \E k \in 1..Len(new_articles) : new_articles[k] = a
                /\ IsProcessed(db, a)

\* C11 as claimed (Spec): a run reads the cache file once, before the first
\* fetch, and writes it once, after the last; while the sources are being
\* fetched, and after an interruption during that time, the file is as it was
\* when the run started; and a missing or malformed file loads as the empty
\* dict without an error.
C11_CacheReadOnceWrittenOnce ==
    /\ pc # "cache_error"
    /\ (pc = "fetch" /\ feedIdx = 1 /\ atStart.cacheFile.state # "ok") => cache = EmptyCache
    /\ pc = "fetch" =>
          /\ cacheOps = <<"load">> \o [k \in 1..(feedIdx - 1) |-> "fetch"]
          /\ cacheFile = atStart.cacheFile
    /\ pc \in (Running \ {"fetch"}) \cup {"done", "store_error", "config_error"} =>
          cacheOps = <<"load">> \o [k \in 1..Len(FeedSeq) |-> "fetch"] \o <<"save">>
    /\ (pc = "killed" /\ \A k \in 1..Len(cacheOps) : cacheOps[k] # "save") =>
          cacheFile = atStart.cacheFile

\* The positions of the list whose article is undated or not older than
\* max_age_hours at the time now.
Recent(input, max_age_hours, now) ==
    {k \in 1..Len(input) :
        \/ ~input[k].published.some
        \/ input[k].published.v >= now - max_age_hours}

\* C12 (AgeSpec): filter_by_age returns the articles at the positions whose
\* published is absent or not before now - max_age_hours, in input order, and
\* the list passed in is as it was.
C12_FilterByAgeExact ==
    fnPc = "age_done" =>
        LET keep == Recent(fnIn.articles, fnIn.max_age_hours, clock) IN
        /\ Len(fnOut) = Cardinality(keep)
        /\ \A j \in 1..Len(fnOut) :
             \E k \in keep : /\ Cardinality({m \in keep : m <= k}) = j
                             /\ fnOut[j] = fnIn.articles[k]
        /\ fnIn.articles = fnSnap

\* An article one hour older than the cutoff, one exactly at the cutoff and
\* an undated one: the last two come back, in that order.
C12_Witness ==
    /\ fnPc = "age_done"
    /\ Len(fnIn.articles) = 3
    /\ fnIn.max_age_hours > 0
    /\ fnIn.articles[1].published = Some(clock - fnIn.max_age_hours - 1)
    /\ fnIn.articles[2].published = Some(clock - fnIn.max_age_hours)
    /\ fnIn.articles[3].published = Nothing
    /\ fnOut = <<fnIn.articles[2], fnIn.articles[3]>>

\* C13 as claimed (Spec): after a complete run in which every summarize
\* returned a text, get_stats()['total_articles'] has grown by the number of
\* articles of the batch, and the calls of the loop are, for each article of
\* the batch in turn, summarize, one send per configured channel, mark.
C13_StatsGrowByBatch ==
    (pc = "done" /\ \A j \in 1..Len(log) : log[j].op = "summarize" => Truthy(log[j].text)) =>
        /\ TotalArticles(db) - TotalArticles(atStart.db) = Len(articles_to_process)
        /\ \A k \in 1..Len(articles_to_process) :
             LET n == Len(notifiers)
                 base == (k - 1) * (n + 2)
             IN /\ Len(log) >= base + n + 2
                /\ log[base + 1].op = "summarize"
                /\ log[base + 1].article = articles_to_process[k]
                /\ \A c \in 1..n : /\ log[base + 1 + c].op = "send"
                                   /\ log[base + 1 + c].article = articles_to_process[k]
                                   /\ log[base + 1 + c].channel = notifiers[c]
                /\ log[base + n + 2].op = "mark"

\* The place of each phase of run_once in the order of the code.
PhaseRank(p) ==
    CASE p = "fetch" -> 1
      [] p = "filter_age" -> 2
      [] p = "filter_dedup" -> 3
      [] p = "cap" -> 4
      [] p = "init_notifier" -> 5
      [] p = "loop" -> 6
      [] p = "done" -> 7

\* The positions of the log that hold a call of the kind op.
CallsOf(op) == {j \in 1..Len(log) : log[j].op = op}

\* The calls of the loop so far: a summarize opens the calls of an article,
\* sends and the mark follow for the same article, and the m-th summarize is
\* for the m-th article of the batch.
LoopInOrder ==
    /\ \A j \in 1..Len(log) :
         /\ log[j].op = "summarize" => (j = 1 \/ log[j - 1].op = "mark")
         /\ log[j].op \in {"send", "mark"} =>
              /\ j > 1
              /\ log[j - 1].op \in {"summarize", "send"}
              /\ log[j - 1].article = log[j].article
    /\ \A j \in CallsOf("summarize") :
         LET m == Cardinality({k \in CallsOf("summarize") : k <= j})
         IN m <= Len(articles_to_process) /\ log[j].article = articles_to_process[m]
    /\ Cardinality(CallsOf("mark")) <= Cardinality(CallsOf("summarize"))

\* C14 (Spec): a run moves through its phases in the order fetch, age filter,
\* dedup filter, cap, loop, done, never back; the batch is the first
\* min(n, max_articles_per_run) new articles; the loop calls, for each article
\* of the batch in order and once, summarize, then the sends, then mark, and
\* at done it has done so for the whole batch.
C14_PhasesInOrder ==
    /\ [][(pc \in Running /\ pc' \in Running \cup {"done"} /\ pc' # pc) =>
              PhaseRank(pc') > PhaseRank(pc)]_vars
    /\ [](pc \in {"init_notifier", "loop"} \/ (pc = "done" /\ new_articles # <<>>) =>
              articles_to_process =
                  SubSeq(new_articles, 1, Min(Len(new_articles), config.max_articles_per_run)))
    /\ [](pc \in Running \cup {"done"} => LoopInOrder)
    /\ [](pc = "done" =>
              /\ Cardinality(CallsOf("summarize")) = Len(articles_to_process)
              /\ Cardinality(CallsOf("mark")) = Len(articles_to_process))

\* A finished run whose cap cut the new articles to two, both summarized,
\* the second one sent and marked.
C14_Witness ==
    /\ pc = "done"
    /\ Len(new_articles) > Len(articles_to_process)
    /\ Len(articles_to_process) = 2
    /\ \E j \in CallsOf("send") : log[j].article = articles_to_process[2]
    /\ log[Len(log)].op = "mark"
    /\ log[Len(log)].article = articles_to_process[2]

\* C15 (Spec): no article whose fingerprint had a row when the run started is
\* summarized or sent to a channel in that run.
C15_RecordedNeverReprocessed ==
    \A j \in 1..Len(log) :
        log[j].op \in {"summarize", "send"} =>
            \A r \in atStart.db : r.url_hash # UrlHash(log[j].article.url)

\* A second run that fetched again, inside the age window, an article an
\* earlier run recorded with a summary, and that summarized and sent another.
C15_Witness ==
    /\ runs = 2
    /\ pc = "done"
    /\ \E a \in Range(recent_articles) :
         \E r \in atStart.db : r.url_hash = UrlHash(a.url) /\ r.summary = "s1"
    /\ CallsOf("summarize") # {}
    /\ CallsOf("send") # {}

\* C16 as claimed (FetchSpec): a fetch answered 304 returns no article and
\* leaves the whole cache dict as it was, and a fetch that failed (parse
\* raised, the feed was unusable, an entry raised) leaves the tokens cached
\* for its source as they were.
C16_CacheChangedOnlyBySuccess ==
    fnPc = "fetch_done" =>
        /\ fnOut.outcome = "not_modified" =>
             (fnOut.articles = <<>> /\ fnOut.cache = fnIn.cache)
        /\ fnOut.outcome \in {"raise", "bozo_empty", "entry_error"} =>
             FeedCache(fnOut.cache, fnIn.feed) = FeedCache(fnIn.cache, fnIn.feed)

\* C17 as claimed (FetchSpec): after a fetch that succeeded with content, the
\* tokens cached for the source are the tokens that response carried.
C17_CacheHoldsReturnedTokens ==
    (fnPc = "fetch_done" /\ fnOut.outcome = "ok") =>
        FeedCache(fnOut.cache, fnIn.feed) =
            [etag |-> fnIn.resp.etag, modified |-> fnIn.resp.modified]

\* The fingerprints that have a row in the table.
Fingerprints(store) == {r.url_hash : r \in store}

\* C18 (MarkSpec): no call of mark_processed, _init_db, is_processed,
\* filter_new_articles or get_stats takes a fingerprint out of the table, and
\* _init_db leaves every row of the table it finds as it is.
C18_FingerprintsNeverShrink ==
    [][/\ Fingerprints(db) \subseteq Fingerprints(db')
       /\ fnOut'.op = "_init_db" => db' = db]_vars

\* _init_db has just run on a table that holds a row written by a second
\* mark_processed of the same article.
C18_Witness ==
    /\ fnOut.op = "_init_db"
    /\ Len(fnCalls) = 2
    /\ fnCalls[1].article = fnCalls[2].article
    /\ \E r \in db : r.url_hash = UrlHash(fnCalls[2].article.url) /\ r.id = 2

\* C19 as claimed (NotifySpec): Notifier(config) completes without an error,
\* and a channel is in Notifier.notifiers exactly when its section is enabled
\* and holds a value for every field the channel needs.
C19_ChannelListedIffComplete ==
    fnPc \in {"notify_built", "notify_config_error"} =>
        LET n == fnIn.notify
            listed == Range(fnOut.notifiers)
        IN /\ ~fnOut.raised
           /\ "Feishu" \in listed <=> (n.feishu.enabled /\ n.feishu.webhook_url)
           /\ "Telegram" \in listed <=>
                (n.telegram.enabled /\ n.telegram.bot_token /\ n.telegram.chat_id)
           /\ "Email" \in listed <=> (n.email.enabled /\ n.email.username /\ n.email.rest)

\* The first of content[0]['value'], summary, description that an entry has
\* and that is not empty; the empty text when there is none.
FirstNonEmpty(e) ==
    LET c == IF e.content.has /\ e.content.items # <<>> /\ e.content.items[1].has
             THEN e.content.items[1].text ELSE <<>>
        sm == IF e.summary.has THEN e.summary.text ELSE <<>>
        d == IF e.description.has THEN e.description.text ELSE <<>>
    IN IF c # <<>> THEN c ELSE IF sm # <<>> THEN sm ELSE d

\* C20 as claimed (ContentSpec): the content of the article is the cleaned
\* text of the first field, in the order content, summary, description, that
\* is not empty.
C20_FirstNonEmptyFieldWins ==
    fnPc = "content_done" => fnOut[1] = Truncate(CleanHtml(FirstNonEmpty(fnIn)))

\* C22 as claimed (Spec): within one run no two summarize calls are for the
\* same fingerprint, and no two sends on one channel (one notify call sends
\* once per channel) are for the same fingerprint, whatever the sources
\* served.
C22_OncePerFingerprint ==
    \A j, k \in 1..Len(log) :
        (/\ j < k
         /\ log[j].op = log[k].op
         /\ log[j].op \in {"summarize", "send"}
         /\ log[j].channel = log[k].channel) =>
            UrlHash(log[j].article.url) # UrlHash(log[k].article.url)

\* The articles the sources of the model can yield.
Items ==
    UNION {{Article(k[j].link, k[j].published, s) : j \in 1..Len(k)} :
               k \in {K1, K2, K3, K4, Updated(K1), Updated(K3), Updated(K4)},
               s \in Feeds}

\* The run has capped its new articles and the fingerprint of a, which is
\* among them, is not in the batch.
CutOff(a) ==
    /\ pc \in {"init_notifier", "loop", "done", "store_error", "config_error"}
    /\ a \in Range(new_articles)
    /\ \A k \in 1..Len(articles_to_process) :
         UrlHash(articles_to_process[k].url) # UrlHash(a.url)

\* The run under way has summarized and marked the fingerprint of a, which
\* has a row.
Handled(a) ==
    /\ \E j, k \in 1..Len(log) :
         /\ j < k
         /\ log[j].op = "summarize" /\ log[k].op = "mark"
         /\ UrlHash(log[j].article.url) = UrlHash(a.url)
         /\ UrlHash(log[k].article.url) = UrlHash(a.url)
    /\ IsProcessed(db, a)

\* A run has completed in which every source answered without error.
GoodRun ==
    /\ pc = "done"
    /\ Len(fetched) = Len(FeedSeq)
    /\ \A k \in 1..Len(fetched) : fetched[k].outcome \in {"ok", "not_modified"}

\* Runs keep occurring: complete runs go on for ever, no run is killed or
\* ends in an error, and no source fails to answer.
RunsKeepOccurring ==
    /\ []<>GoodRun
    /\ [](pc \in Ended => GoodRun)

\* C21 as claimed (LiveSpec): an article that is new in a run and cut off by
\* the cap has no row while that run lasts; and when runs keep occurring,
\* such an article is, for as long as it is inside the age window, eventually
\* summarized and marked by a run, whether or not the sources change in
\* between.
C21_CutOffHandledLater ==
    /\ [](\A a \in Items : CutOff(a) => ~IsProcessed(db, a))
    /\ (RunsKeepOccurring =>
          \A a \in Items : CutOff(a) ~> (Handled(a) \/ ~InWindow(a, clock)))

====
